---------------------------- MODULE Spec2Model ----------------------------
(***************************************************************************)
(* Conway's Game of Life on a bit-packed square grid                       *)
(* (src/src/game_of_life.rs, driven by src/src/main.rs).                   *)
(*                                                                         *)
(* A BigUint is modelled by the set of its set bit positions: the value    *)
(* is the sum of 2^i over the members i.  The encoding is a bijection      *)
(* between finite sets of naturals and non-negative integers, so equality  *)
(* of values is equality of sets, and the bitwise operators of the source  *)
(* are the set operators below.                                            *)
(***************************************************************************)
EXTENDS Integers, Sequences, FiniteSets, TLC

VARIABLES
    world_size,  \* World.world_size                 (game_of_life.rs:7)
    world,       \* World.world                      (game_of_life.rs:8)
    states,      \* World.states                     (game_of_life.rs:9)
    stable,      \* World.stable                     (game_of_life.rs:10)
    result,      \* outcome of World::new: "none" before the call, "Ok", or the Err text
    size,        \* the world_size argument handed to World::new
    seed,        \* the seed argument handed to World::new
    calls,       \* number of advance() calls made so far
    new_world,   \* local new_world of the last advance() that ran the loop, <<>> if none
    observed,    \* value returned by the last is_stable() call, <<>> if none
    out,         \* text produced by the last rendering, <<>> if none
    pc,          \* position of the caller: "lib" (free use of the API) or a place in main
    other,       \* a second World, built from the seed cut to the grid's bits
    cell,        \* last get_cell call: <<index, value returned>>, <<>> if none
    count,       \* last count_nearby_cells call: <<index, value returned>>, <<>> if none
    argv,        \* env::args() after the program name   (main.rs:41-42)
    iter,        \* number of arguments iter has yielded  (main.rs:42)
    wrong_usage, \* parse_params_from_args.wrong_usage    (main.rs:44)
    exit_code    \* code handed to process::exit, <<>> if it was not called (main.rs:97)

\* what a call of a private helper returned
helper_vars == <<cell, count>>

\* the state of the command-line layer
cli_vars == <<argv, iter, wrong_usage, exit_code>>

vars == <<world_size, world, states, stable, result, size, seed, calls,
          new_world, observed, out, pc, other, cell, count,
          argv, iter, wrong_usage, exit_code>>

---------------------------------------------------------------------------
(* Bounds of the model *)

\* grids of side 1..MaxSize are simulated
MaxSize == 3
\* seeds have their set bits among positions 0..MaxSeedBit
MaxSeedBit == 10
\* a free caller of the API makes at most MaxCalls calls of advance()
MaxCalls == 6

Seeds == SUBSET (0..MaxSeedBit)
Sizes == 1..MaxSize
\* every value of the u8 parameter world_size
U8 == 0..255
\* seeds tried against every u8 size: zero and the single-bit seeds
NewSeeds == {s \in Seeds : Cardinality(s) <= 1}

---------------------------------------------------------------------------
(* BigUint operators used by the source *)

one == {0}

Shl(b, k) == {j + k : j \in b}

Shr(b, k) == {j - k : j \in {x \in b : x >= k}}

BitAnd(a, b) == a \cap b

BitOr(a, b) == a \cup b

BitXor(a, b) == (a \ b) \cup (b \ a)

\* BigUint::from(2u8).pow(k)
Pow2Big(k) == {k}

---------------------------------------------------------------------------
(* impl World *)

MAX_WORLD_SIZE == 50
UNDERPOPULATION_TRESHOLD == 2
OVERPOPULATION_TRESHOLD == 3
REPRODUCTION_TRIGGER == 3

ErrTooLarge == "World size exceeds maximum allowed."
ErrTooSmall == "World size must be greater than 0"

\* a World value
World(ws, w, st, sb) == [world_size |-> ws, world |-> w, states |-> st, stable |-> sb]

\* the value held before World::new has returned one
NoWorld == World(0, {}, <<>>, FALSE)

\* new with the first test written >=: a variant that rejects the maximum size
new_rejects_max(sd, ws) ==
    IF ws >= MAX_WORLD_SIZE THEN [res |-> ErrTooLarge, w |-> NoWorld]
    ELSE IF ws < 1 THEN [res |-> ErrTooSmall, w |-> NoWorld]
    ELSE [res |-> "Ok", w |-> World(ws, sd, <<sd>>, FALSE)]

\* new with the flag set at construction: a variant that starts stable
new_starts_stable(sd, ws) ==
    IF ws > MAX_WORLD_SIZE THEN [res |-> ErrTooLarge, w |-> NoWorld]
    ELSE IF ws < 1 THEN [res |-> ErrTooSmall, w |-> NoWorld]
    ELSE [res |-> "Ok", w |-> World(ws, sd, <<sd>>, TRUE)]

\* World::new
new(sd, ws) ==
    IF ws > MAX_WORLD_SIZE THEN [res |-> ErrTooLarge, w |-> NoWorld]
    ELSE IF ws < 1 THEN [res |-> ErrTooSmall, w |-> NoWorld]
    ELSE [res |-> "Ok", w |-> World(ws, sd, <<sd>>, FALSE)]

\* World::is_stable
is_stable(self) == self.stable

\* get_cell without the shift: a variant that compares the masked value itself
\* with one
get_cell_no_shift(w, index) ==
    IF BitAnd(w, Pow2Big(index)) = one THEN 1 ELSE 0

\* World::get_cell
get_cell(w, index) ==
    IF Shr(BitAnd(w, Pow2Big(index)), index) = one THEN 1 ELSE 0

\* nearby_positions without the last-column test: a variant where the end of
\* one row is adjacent to the start of the next
nearby_positions_no_last_col(ws, index) ==
    LET first_col == index % ws = 0
        last_col  == FALSE
        first_row == index < ws
        last_row  == index > (ws * ws - ws)
    IN  (IF ~first_col THEN <<index - 1>> ELSE <<>>)
     \o (IF ~last_col THEN <<index + 1>> ELSE <<>>)
     \o (IF ~first_row
         THEN <<index - ws>>
              \o (IF ~first_col THEN <<index - ws - 1>> ELSE <<>>)
              \o (IF ~last_col THEN <<index - ws + 1>> ELSE <<>>)
         ELSE <<>>)
     \o (IF ~last_row
         THEN <<index + ws>>
              \o (IF ~first_col THEN <<index + ws - 1>> ELSE <<>>)
              \o (IF ~last_col THEN <<index + ws + 1>> ELSE <<>>)
         ELSE <<>>)

\* nearby_positions with the first-row test one short: a variant that looks
\* above the last cell of the first row
nearby_positions_first_row_short(ws, index) ==
    LET first_col == index % ws = 0
        last_col  == (index + 1) % ws = 0
        first_row == index < ws - 1
        last_row  == index > (ws * ws - ws)
    IN  (IF ~first_col THEN <<index - 1>> ELSE <<>>)
     \o (IF ~last_col THEN <<index + 1>> ELSE <<>>)
     \o (IF ~first_row
         THEN <<index - ws>>
              \o (IF ~first_col THEN <<index - ws - 1>> ELSE <<>>)
              \o (IF ~last_col THEN <<index - ws + 1>> ELSE <<>>)
         ELSE <<>>)
     \o (IF ~last_row
         THEN <<index + ws>>
              \o (IF ~first_col THEN <<index + ws - 1>> ELSE <<>>)
              \o (IF ~last_col THEN <<index + ws + 1>> ELSE <<>>)
         ELSE <<>>)

\* World::count_nearby_cells: the positions it hands to get_cell, in the order
\* of the source
nearby_positions(ws, index) ==
    LET first_col == index % ws = 0
        last_col  == (index + 1) % ws = 0
        first_row == index < ws
        last_row  == index > (ws * ws - ws)
    IN  (IF ~first_col THEN <<index - 1>> ELSE <<>>)
     \o (IF ~last_col THEN <<index + 1>> ELSE <<>>)
     \o (IF ~first_row
         THEN <<index - ws>>
              \o (IF ~first_col THEN <<index - ws - 1>> ELSE <<>>)
              \o (IF ~last_col THEN <<index - ws + 1>> ELSE <<>>)
         ELSE <<>>)
     \o (IF ~last_row
         THEN <<index + ws>>
              \o (IF ~first_col THEN <<index + ws - 1>> ELSE <<>>)
              \o (IF ~last_col THEN <<index + ws + 1>> ELSE <<>>)
         ELSE <<>>)

\* every value a u16 expression takes in advance() and count_nearby_cells for
\* the cell index, computed in the integers: the positions handed to get_cell
\* (index - ws and index + ws, the values the diagonals pass through, are
\* among them), index + 1 and the two remainders of the column tests,
\* world_size.pow(2) and world_size.pow(2) - world_size, and the loop's i
u16_values(ws, index) ==
    nearby_positions(ws, index)
        \o <<index + 1, index % ws, (index + 1) % ws, ws * ws, ws * ws - ws, index>>

\* cell_count += self.get_cell(p) over the positions ps: get_cell is 0 or 1
\* (line 107), so the sum is the number of positions where it is 1
SumCells(w, ps) == Cardinality({k \in 1..Len(ps) : get_cell(w, ps[k]) = 1})

\* World::count_nearby_cells.  The positions are computed once and bound to ps.
count_nearby_cells(w, ws, index) ==
    CHOOSE n \in {SumCells(w, ps) : ps \in {nearby_positions(ws, index)}} : TRUE

\* advance_cell reading new_world instead of self.world: a variant that
\* updates the grid in place
advance_cell_in_place(w, ws, nw, i) ==
    LET cell_count == count_nearby_cells(nw, ws, i)
        current    == get_cell(nw, i)
    IN  IF current = 1
           /\ (cell_count < UNDERPOPULATION_TRESHOLD \/ cell_count > OVERPOPULATION_TRESHOLD)
        THEN BitXor(nw, Shl(one, i))
        ELSE IF current = 0 /\ cell_count = REPRODUCTION_TRIGGER
        THEN BitOr(nw, Shl(one, i))
        ELSE nw

\* World::advance, the body of the loop for cell i: w is self.world, nw is
\* new_world before the iteration, the value is new_world after it
advance_cell(w, ws, nw, i) ==
    LET cell_count == count_nearby_cells(w, ws, i)
        current    == get_cell(w, i)
    IN  IF current = 1
           /\ (cell_count < UNDERPOPULATION_TRESHOLD \/ cell_count > OVERPOPULATION_TRESHOLD)
        THEN BitXor(nw, Shl(one, i))
        ELSE IF current = 0 /\ cell_count = REPRODUCTION_TRIGGER
        THEN BitOr(nw, Shl(one, i))
        ELSE nw

RECURSIVE advance_loop_inclusive(_, _, _, _)
\* advance_loop over 0..=world_size.pow(2): a variant that also works on
\* position N*N
advance_loop_inclusive(w, ws, nw, i) ==
    IF i > ws * ws THEN nw
    ELSE advance_loop_inclusive(w, ws, advance_cell(w, ws, nw, i), i + 1)

RECURSIVE advance_loop(_, _, _, _)
\* World::advance, the loop over i in 0..world_size.pow(2), from cell i on
advance_loop(w, ws, nw, i) ==
    IF i >= ws * ws THEN nw
    ELSE advance_loop(w, ws, advance_cell(w, ws, nw, i), i + 1)

\* World::advance, new_world after the loop
next_world(self) == advance_loop(self.world, self.world_size, self.world, 0)

\* Contains looking at every entry but the last: a variant that misses a next
\* state equal to the current one
Contains_skips_last(st, v) == \E k \in 1..(Len(st) - 1) : st[k] = v

\* Contains looking at every entry but the first: a variant that misses a
\* return to the seed
Contains_skips_first(st, v) == \E k \in 2..Len(st) : st[k] = v

\* Vec::contains
Contains(st, v) == \E k \in 1..Len(st) : st[k] = v

\* the outcome of a call of advance(): the World it leaves, and the local
\* new_world if the call got past the early return (<<>> if it did not)
Left(self, nw) == [after |-> self, new_world |-> nw]

\* advance_tail returning on a repeat without setting the flag
advance_tail_forgets_flag(self, nw) ==
    IF Contains(self.states, nw)
    THEN Left(self, <<nw>>)
    ELSE Left([self EXCEPT !.world = nw, !.states = Append(self.states, nw)], <<nw>>)

\* advance_tail storing new_world into self.world before the history test
advance_tail_writes_first(self, nw) ==
    IF Contains(self.states, nw)
    THEN Left([self EXCEPT !.world = nw, !.stable = TRUE], <<nw>>)
    ELSE Left([self EXCEPT !.world = nw, !.states = Append(self.states, nw)], <<nw>>)

\* advance_tail storing and appending new_world before the history test: a
\* variant that finds every next state in history
advance_tail_pushes_first(self, nw) ==
    IF Contains(Append(self.states, nw), nw)
    THEN Left([self EXCEPT !.world = nw, !.states = Append(self.states, nw),
                           !.stable = TRUE], <<nw>>)
    ELSE Left([self EXCEPT !.world = nw, !.states = Append(self.states, nw)], <<nw>>)

\* advance_tail appending new_world without storing it in self.world
advance_tail_keeps_world(self, nw) ==
    IF Contains(self.states, nw)
    THEN Left([self EXCEPT !.stable = TRUE], <<nw>>)
    ELSE Left([self EXCEPT !.states = Append(self.states, nw)], <<nw>>)

\* World::advance after the loop (lines 68-75), nw the value of new_world
advance_tail(self, nw) ==
    IF Contains(self.states, nw)
    THEN Left([self EXCEPT !.stable = TRUE], <<nw>>)
    ELSE Left([self EXCEPT !.world = nw, !.states = Append(self.states, nw)], <<nw>>)

\* advance without the early return of line 47, storing new_world first
advance_no_early_return(self) ==
    CHOOSE r \in {advance_tail_writes_first(self, nw) : nw \in {next_world(self)}} : TRUE

\* World::advance.  The loop's result is computed once and bound to nw.
advance(self) ==
    IF self.stable THEN Left(self, <<>>)
    ELSE CHOOSE r \in {advance_tail(self, nw) : nw \in {next_world(self)}} : TRUE

---------------------------------------------------------------------------
(* impl fmt::Display for World.  A text is a sequence of characters; the   *)
(* box-drawing characters are named: TL TR BL BR for the corners, H for    *)
(* the horizontal bar, FULL for the filled block.                          *)

RECURSIVE Repeat(_, _)
Repeat(s, n) == IF n = 0 THEN <<>> ELSE s \o Repeat(s, n - 1)

RECURSIVE fmt_cells(_, _)
\* the loop of fmt, from cell i on
fmt_cells(self, i) ==
    IF i >= self.world_size * self.world_size THEN <<>>
    ELSE (IF i % self.world_size = 0 THEN <<"|">> ELSE <<>>)
      \o (IF get_cell(self.world, i) = 1 THEN <<"FULL", "FULL">> ELSE <<" ", " ">>)
      \o (IF (i + 1) % self.world_size = 0 THEN <<"|", "\n">> ELSE <<>>)
      \o fmt_cells(self, i + 1)

\* World::fmt
fmt(self) ==
    LET spacer == Repeat(<<"H">>, self.world_size * 2)
    IN  <<"TL">> \o spacer \o <<"TR", "\n">>
     \o fmt_cells(self, 0)
     \o <<"BL">> \o spacer \o <<"BR">> \o <<"\n">>

---------------------------------------------------------------------------
(* The state machine *)

Self == World(world_size, world, states, stable)

\* the low ws*ws bits of a value
GridBits(w, ws) == {i \in w : i < ws * ws}

SetWorld(w) ==
    /\ world_size' = w.world_size
    /\ world' = w.world
    /\ states' = w.states
    /\ stable' = w.stable

\* World::new has returned Ok(World) for (sd, ws); the caller is at place p
Constructed(sd, ws, p) ==
    LET r == new(sd, ws)
    IN  /\ r.res = "Ok"
        /\ world_size = r.w.world_size
        /\ world = r.w.world
        /\ states = r.w.states
        /\ stable = r.w.stable
        /\ result = r.res
        /\ size = ws
        /\ seed = sd
        /\ calls = 0
        /\ new_world = <<>>
        /\ observed = <<>>
        /\ out = <<>>
        /\ pc = p
        /\ other = new(GridBits(sd, ws), ws).w
        /\ cell = <<>>
        /\ count = <<>>
        /\ argv = <<>>
        /\ iter = 0
        /\ wrong_usage = FALSE
        /\ exit_code = <<>>

\* a World built from any seed and any size the model simulates, used freely
Init == \E sd \in Seeds, ws \in Sizes : Constructed(sd, ws, "lib")

\* one call of advance() on the World
AdvanceCall ==
    \E r \in {advance(Self)} :
        /\ SetWorld(r.after)
        /\ calls' = calls + 1
        /\ new_world' = IF r.new_world = <<>> THEN new_world ELSE r.new_world

Advance ==
    /\ pc = "lib"
    /\ calls < MaxCalls
    /\ AdvanceCall
    /\ UNCHANGED <<result, size, seed, observed, out, pc, other,
                   helper_vars, cli_vars>>

IsStable ==
    /\ pc = "lib"
    /\ observed' = <<is_stable(Self)>>
    /\ UNCHANGED <<world_size, world, states, stable, result, size, seed, calls,
                   new_world, out, pc, other,
                   helper_vars, cli_vars>>

\* format!("{}", world): fmt takes &self and the text goes to the caller
Display ==
    /\ pc = "lib"
    /\ Len(fmt(Self)) > 0
    /\ UNCHANGED vars

Next == Advance \/ IsStable \/ Display

Spec == Init /\ [][Next]_vars

---------------------------------------------------------------------------
(* main (main.rs:18-37), from the pair (seed, world_size) that            *)
(* parse_params_from_args returned                                         *)

\* the World before World::new has run, the caller at place p
Unbuilt(p) ==
    /\ world_size = NoWorld.world_size
    /\ world = NoWorld.world
    /\ states = NoWorld.states
    /\ stable = NoWorld.stable
    /\ result = "none"
    /\ size = 0
    /\ seed = {}
    /\ calls = 0
    /\ new_world = <<>>
    /\ observed = <<>>
    /\ out = <<>>
    /\ pc = p
    /\ other = NoWorld
    /\ cell = <<>>
    /\ count = <<>>
    /\ argv = <<>>
    /\ iter = 0
    /\ wrong_usage = FALSE
    /\ exit_code = <<>>

InitLoop == Unbuilt("main")

\* sizes parse_params_from_args can return that the model follows: the
\* simulated ones and the two nearest rejected ones
MainSizes == {0} \cup Sizes \cup {MAX_WORLD_SIZE + 1}

\* let (seed, world_size) = parse_params_from_args();
\* the seed it returns is not zero (main.rs:70)
MainArgs ==
    /\ pc = "main"
    /\ seed' \in Seeds \ {{}}
    /\ size' \in MainSizes
    /\ pc' = "new"
    /\ UNCHANGED <<world_size, world, states, stable, result, calls, new_world,
                   observed, out, other,
                   helper_vars, cli_vars>>

\* let mut world = World::new(seed, world_size).unwrap();
MainNew ==
    /\ pc = "new"
    /\ \E r \in {new(seed, size)} :
         /\ SetWorld(r.w)
         /\ result' = r.res
         /\ pc' = IF r.res = "Ok" THEN "while" ELSE "panic"
         /\ other' = IF r.res = "Ok" THEN new(GridBits(seed, size), size).w ELSE NoWorld
    /\ UNCHANGED <<size, seed, calls, new_world, observed, out,
                   helper_vars, cli_vars>>

\* while !world.is_stable()
MainWhile ==
    /\ pc = "while"
    /\ observed' = <<is_stable(Self)>>
    /\ pc' = IF is_stable(Self) THEN "report" ELSE "print"
    /\ UNCHANGED <<world_size, world, states, stable, result, size, seed, calls,
                   new_world, out, other,
                   helper_vars, cli_vars>>

\* print!("\x1B[2J\x1B[1;1H"); print!("{}", world);
MainPrint ==
    /\ pc = "print"
    /\ out' = fmt(Self)
    /\ pc' = "advance"
    /\ UNCHANGED <<world_size, world, states, stable, result, size, seed, calls,
                   new_world, observed, other,
                   helper_vars, cli_vars>>

\* world.advance();
MainAdvance ==
    /\ pc = "advance"
    /\ AdvanceCall
    /\ pc' = "sleep"
    /\ UNCHANGED <<result, size, seed, observed, out, other,
                   helper_vars, cli_vars>>

\* thread::sleep(interval);
MainSleep ==
    /\ pc = "sleep"
    /\ pc' = "while"
    /\ UNCHANGED <<world_size, world, states, stable, result, size, seed, calls,
                   new_world, observed, out, other,
                   helper_vars, cli_vars>>

\* println!("World is stable");
MainReport ==
    /\ pc = "report"
    /\ out' = out \o <<"World is stable", "\n">>
    /\ pc' = "done"
    /\ UNCHANGED <<world_size, world, states, stable, result, size, seed, calls,
                   new_world, observed, other,
                   helper_vars, cli_vars>>

NextLoop == MainArgs \/ MainNew \/ MainWhile \/ MainPrint \/ MainAdvance \/ MainSleep \/ MainReport

\* the loop is sequential code of one thread: each step that can run does run
SpecLoop == InitLoop /\ [][NextLoop]_vars /\ WF_vars(NextLoop)

---------------------------------------------------------------------------
(* parse_params_from_args and print_help_and_exit (main.rs:39-98).  An     *)
(* argument is a sequence of characters.  current_exe() and println! are   *)
(* taken to succeed.                                                       *)

\* at most MaxArgs arguments follow the program name
MaxArgs == 3

\* "--seed" | "-s"
SeedFlags == {<<"-", "-", "s", "e", "e", "d">>, <<"-", "s">>}
\* "--world-size" | "-w"
SizeFlags == {<<"-", "-", "w", "o", "r", "l", "d", "-", "s", "i", "z", "e">>, <<"-", "w">>}
\* "--help" | "-h"
HelpFlags == {<<"-", "-", "h", "e", "l", "p">>, <<"-", "h">>}

\* the arguments tried: the six flags, and the texts 5, 0, 300, +2 and x
ArgTexts ==
    SeedFlags \cup SizeFlags \cup HelpFlags
        \cup {<<"5">>, <<"0">>, <<"3", "0", "0">>, <<"+", "2">>, <<"x">>}

ArgLists == UNION {[1..n -> ArgTexts] : n \in 0..MaxArgs}

Digits == <<"0", "1", "2", "3", "4", "5", "6", "7", "8", "9">>

IsDigit(c) == \E d \in 1..10 : Digits[d] = c

DigitValue(c) == (CHOOSE d \in 1..10 : Digits[d] = c) - 1

RECURSIVE from_digits(_, _)
\* the number written by the decimal digits s, after the digits read into acc
from_digits(s, acc) ==
    IF s = <<>> THEN acc
    ELSE from_digits(Tail(s), acc * 10 + DigitValue(Head(s)))

\* str::parse of a decimal numeral: one optional leading +, then one or more
\* digits; anything else is Err
parse_decimal(s) ==
    LET t == IF s # <<>> /\ Head(s) = "+" THEN Tail(s) ELSE s
    IN  IF t = <<>> \/ \E k \in 1..Len(t) : ~IsDigit(t[k])
        THEN [ok |-> FALSE, v |-> 0]
        ELSE [ok |-> TRUE, v |-> from_digits(t, 0)]

RECURSIVE BitsFrom(_, _)
\* the BigUint of the number n, its lowest bit at position i
BitsFrom(n, i) ==
    IF n = 0 THEN {}
    ELSE (IF n % 2 = 1 THEN {i} ELSE {}) \cup BitsFrom(n \div 2, i + 1)

\* .parse() into the BigUint seed (main.rs:53)
parse_BigUint(s) ==
    LET r == parse_decimal(s)
    IN  [ok |-> r.ok, v |-> BitsFrom(r.v, 0)]

\* .parse() into the u8 world_size (main.rs:59): a number above 255 is Err
parse_u8(s) ==
    LET r == parse_decimal(s)
    IN  IF r.ok /\ r.v <= 255 THEN r ELSE [ok |-> FALSE, v |-> 0]

\* iter.next().unwrap_or(&" ".to_string()), when iter has yielded k arguments
next_or_blank(av, k) == IF k + 1 <= Len(av) THEN av[k + 1] ELSE <<" ">>

\* the test of line 70 without the seed: a variant that lets a zero seed through
usage_refused_seed_unchecked(wu, sd) == wu

\* if wrong_usage || seed == Zero::zero()
usage_refused(wu, sd) == wu \/ sd = {}

\* let args = env::args().collect(); let mut iter = args.iter().skip(1);
\* and the three locals of lines 44-46
ParseStart ==
    /\ pc = "main"
    /\ argv' \in ArgLists
    /\ iter' = 0
    /\ wrong_usage' = FALSE
    /\ seed' = {}
    /\ size' = 3
    /\ pc' = "parse"
    /\ UNCHANGED <<world_size, world, states, stable, result, calls, new_world,
                   observed, out, other, helper_vars, exit_code>>

\* one turn of while let Some(arg) = iter.next()
ParseArg ==
    /\ pc = "parse"
    /\ iter < Len(argv)
    /\ LET arg == argv[iter + 1]
           val == next_or_blank(argv, iter + 1)
           after_val == IF iter + 2 <= Len(argv) THEN iter + 2 ELSE Len(argv)
       IN  IF arg \in SeedFlags
           THEN /\ iter' = after_val
                /\ seed' = IF parse_BigUint(val).ok THEN parse_BigUint(val).v ELSE seed
                /\ wrong_usage' = IF parse_BigUint(val).ok THEN wrong_usage ELSE TRUE
                /\ UNCHANGED <<size, exit_code, pc>>
           ELSE IF arg \in SizeFlags
           THEN /\ iter' = after_val
                /\ size' = IF parse_u8(val).ok THEN parse_u8(val).v ELSE size
                /\ wrong_usage' = IF parse_u8(val).ok THEN wrong_usage ELSE TRUE
                /\ UNCHANGED <<seed, exit_code, pc>>
           ELSE IF arg \in HelpFlags
           THEN /\ iter' = iter + 1
                /\ exit_code' = <<0>>
                /\ pc' = "exit"
                /\ UNCHANGED <<seed, size, wrong_usage>>
           ELSE /\ iter' = iter + 1
                /\ wrong_usage' = TRUE
                /\ UNCHANGED <<seed, size, exit_code, pc>>
    /\ UNCHANGED <<world_size, world, states, stable, result, calls, new_world,
                   observed, out, other, helper_vars, argv>>

\* the loop has ended: line 70, then the pair goes back to main
ParseEnd ==
    /\ pc = "parse"
    /\ iter = Len(argv)
    /\ IF usage_refused(wrong_usage, seed)
       THEN exit_code' = <<1>> /\ pc' = "exit"
       ELSE exit_code' = exit_code /\ pc' = "new"
    /\ UNCHANGED <<world_size, world, states, stable, result, size, seed, calls,
                   new_world, observed, out, other, helper_vars,
                   argv, iter, wrong_usage>>

InitCli == Unbuilt("main")

NextCli == ParseStart \/ ParseArg \/ ParseEnd \/ MainNew

SpecCli == InitCli /\ [][NextCli]_vars

---------------------------------------------------------------------------
(* Two Worlds of the same size advanced together: the one built from the   *)
(* seed, and `other`, built from the seed cut to its low size*size bits    *)

InitPair == \E sd \in Seeds, ws \in Sizes : Constructed(sd, ws, "pair")

AdvancePair ==
    /\ pc = "pair"
    /\ calls < MaxCalls
    /\ AdvanceCall
    /\ other' = advance(other).after
    /\ UNCHANGED <<result, size, seed, observed, out, pc,
                   helper_vars, cli_vars>>

NextPair == AdvancePair

SpecPair == InitPair /\ [][NextPair]_vars

---------------------------------------------------------------------------
(* World::new on every value of its u8 parameter *)

InitNew == Unbuilt("new")

New ==
    /\ pc = "new"
    /\ result = "none"
    /\ \E sd \in NewSeeds, ws \in U8 :
         LET r == new(sd, ws)
         IN  /\ SetWorld(r.w)
             /\ result' = r.res
             /\ size' = ws
             /\ seed' = sd
    /\ UNCHANGED <<calls, new_world, observed, out, pc, other,
                   helper_vars, cli_vars>>

NextNew == New

SpecNew == InitNew /\ [][NextNew]_vars

---------------------------------------------------------------------------
(* get_cell called on a World of any seed and any simulated size, for any  *)
(* index of the grid                                                       *)

InitCell == \E sd \in Seeds, ws \in Sizes : Constructed(sd, ws, "cell")

\* self.get_cell(i), which takes &self
GetCell ==
    /\ pc = "cell"
    /\ \E i \in 0..(world_size * world_size - 1) : cell' = <<i, get_cell(world, i)>>
    /\ UNCHANGED <<world_size, world, states, stable, result, size, seed, calls,
                   new_world, observed, out, pc, other, count, cli_vars>>

NextCell == GetCell

SpecCell == InitCell /\ [][NextCell]_vars

---------------------------------------------------------------------------
(* count_nearby_cells called for the cells of a World in the order of the  *)
(* loop of advance(), for every size new accepts, on the empty state and   *)
(* on the state with every bit it can read set                             *)

CountSeeds(ws) == {{}, 0..(ws * ws + 1)}

InitCount ==
    \E ws \in 1..MAX_WORLD_SIZE : \E sd \in CountSeeds(ws) : Constructed(sd, ws, "count")

\* self.count_nearby_cells(i), which takes &self, for the next i of
\* for i in 0..world_size.pow(2)
Count ==
    /\ pc = "count"
    /\ \E i \in {IF count = <<>> THEN 0 ELSE count[1] + 1} :
         /\ i < world_size * world_size
         /\ count' = <<i, count_nearby_cells(world, world_size, i)>>
    /\ UNCHANGED <<world_size, world, states, stable, result, size, seed, calls,
                   new_world, observed, out, pc, other, cell, cli_vars>>

NextCount == Count

SpecCount == InitCount /\ [][NextCount]_vars

---------------------------------------------------------------------------
(* Reference definitions on the 2-D grid, written on rows and columns *)

Cells(ws) == 0..(ws * ws - 1)

\* the value has no bit set at a position >= ws*ws
InGrid(w, ws) == w \subseteq Cells(ws)

\* cell (r, c) lies in the ws x ws grid and is alive
AliveAt(w, ws, r, c) ==
    /\ r \in 0..(ws - 1)
    /\ c \in 0..(ws - 1)
    /\ (r * ws + c) \in w

Offsets == {d \in (-1..1) \X (-1..1) : d # <<0, 0>>}

\* live Moore neighbours of cell (r, c), no wraparound
MooreCount(w, ws, r, c) ==
    Cardinality({d \in Offsets : AliveAt(w, ws, r + d[1], c + d[2])})

\* the Conway generation that follows w on the ws x ws grid
ConwayNext(w, ws) ==
    {i \in Cells(ws) :
        LET r == i \div ws
            c == i % ws
            n == MooreCount(w, ws, r, c)
        IN  \/ i \in w /\ n \in {2, 3}
            \/ i \notin w /\ n = 3}

RECURSIVE Pow2(_)
Pow2(n) == IF n = 0 THEN 1 ELSE 2 * Pow2(n - 1)

RECURSIVE Value(_)
\* the number a set of bit positions stands for
Value(w) ==
    IF w = {} THEN 0
    ELSE LET i == CHOOSE x \in w : TRUE
         IN  Pow2(i) + Value(w \ {i})

\* bit i of the number n: (n >> i) & 1
BitOf(n, i) == (n \div Pow2(i)) % 2

\* the bits of a value at positions >= ws*ws
HighBits(w, ws) == {i \in w : i >= ws * ws}

\* the values of a 16-bit unsigned integer
U16 == 0..65535

RECURSIVE StepTimes(_, _, _)
\* the next-state computation of advance() applied p times to the state w
StepTimes(w, ws, p) ==
    IF p = 0 THEN w
    ELSE StepTimes(next_world(World(ws, w, <<>>, FALSE)), ws, p - 1)

\* the step just taken was a call of advance() on a World that was not stable
AdvancedUnstable == calls' = calls + 1 /\ ~stable

IsCorner(ws, i) ==
    /\ i \div ws \in {0, ws - 1}
    /\ i % ws \in {0, ws - 1}

IsBorder(ws, i) == i \div ws \in {0, ws - 1} \/ i % ws \in {0, ws - 1}

---------------------------------------------------------------------------
(* Reference definitions on the command line, written on the whole list of *)
(* arguments                                                               *)

RECURSIVE FlagPositions(_, _)
\* the positions of av, from k on, whose argument is read as a flag: the one
\* after --seed/-s or --world-size/-w is read as its value
FlagPositions(av, k) ==
    IF k > Len(av) THEN {}
    ELSE {k} \cup FlagPositions(av, IF av[k] \in SeedFlags \cup SizeFlags
                                     THEN k + 2 ELSE k + 1)

\* some argument read as a flag is none of the six flags
Unrecognised(av) ==
    \E k \in FlagPositions(av, 1) : av[k] \notin SeedFlags \cup SizeFlags \cup HelpFlags

\* the seeds given: the flag positions of a --seed/-s whose value is there and parses
SeedsGiven(av) ==
    {k \in FlagPositions(av, 1) :
        av[k] \in SeedFlags /\ k + 1 <= Len(av) /\ parse_BigUint(av[k + 1]).ok}

\* a --seed/-s or --world-size/-w whose value is missing or does not parse
BadValue(av) ==
    \E k \in FlagPositions(av, 1) :
        \/ av[k] \in SeedFlags /\ k \notin SeedsGiven(av)
        \/ av[k] \in SizeFlags /\ (k + 1 > Len(av) \/ ~parse_u8(av[k + 1]).ok)

\* the seed the arguments give: the last one given, zero if none is
ResultingSeed(av) ==
    IF SeedsGiven(av) = {} THEN {}
    ELSE LET k == CHOOSE x \in SeedsGiven(av) : \A y \in SeedsGiven(av) : y <= x
         IN  parse_BigUint(av[k + 1]).v

UsageError(av) == Unrecognised(av) \/ BadValue(av) \/ ResultingSeed(av) = {}

\* --help/-h is read as a flag
HelpAsked(av) == \E k \in FlagPositions(av, 1) : av[k] \in HelpFlags

\* parse_params_from_args has returned or the process has exited
ParseOver == pc \notin {"main", "parse"}

---------------------------------------------------------------------------
(* The claims *)

\* C1: a call of advance() on a non-stable World whose state has no bit at a
\* position >= N*N computes, as its next state, the Conway generation of the
\* N x N non-wrapping grid, every count taken against the unmodified state.
C1_AdvanceIsConway ==
    [][(AdvancedUnstable /\ InGrid(world, world_size))
         => new_world' = <<ConwayNext(world, world_size)>>]_vars

\* the first step of tests::advance_works_correctly: 011010011 -> 011100011
C1_Witness ==
    /\ world_size = 3
    /\ seed = {0, 1, 4, 6, 7}
    /\ calls = 1
    /\ new_world = <<{0, 1, 5, 6, 7}>>
    /\ world = {0, 1, 5, 6, 7}

\* C2: a call of advance() on a non-stable World sets stable iff the computed
\* next state is an entry of history; then state and history are unchanged;
\* otherwise stable stays false, the state becomes the next state and history
\* grows by that one entry at its end.
C2_StableIffInHistory ==
    [][AdvancedUnstable =>
         LET nw == new_world'[1]
         IN  /\ stable' <=> Contains(states, nw)
             /\ stable' => (world' = world /\ states' = states)
             /\ ~stable' => (world' = nw /\ states' = Append(states, nw))]_vars

\* a period-2 blinker on the 3 x 3 grid: the second call finds the seed again
C2_Witness ==
    /\ world_size = 3
    /\ seed = {3, 4, 5}
    /\ calls = 2
    /\ stable
    /\ new_world = <<seed>>
    /\ world = {1, 4, 7}
    /\ states = <<{3, 4, 5}, {1, 4, 7}>>

\* C3: the loop of main ends with the report, and is_stable() is true after at
\* most 2^(N*N) calls of advance().
C3_LoopTerminates ==
    /\ (result = "Ok") ~> (pc = "done")
    /\ [](calls >= Pow2(world_size * world_size) => stable)

\* size 1, seed 1: the cell dies, then the empty grid repeats: 2 = 2^(1*1) calls
C3_Witness ==
    /\ pc = "done"
    /\ world_size = 1
    /\ seed = {0}
    /\ calls = Pow2(world_size * world_size)
    /\ stable

\* C4: seed bits at positions >= N*N are ignored: two Worlds whose seeds agree
\* on bits 0..N*N-1, advanced the same number of times, agree on those bits of
\* the state and on is_stable().
C4_HighSeedBitsIgnored ==
    /\ GridBits(world, world_size) = GridBits(other.world, world_size)
    /\ is_stable(Self) = is_stable(other)

\* C5: for every cell i of the grid, count_nearby_cells hands get_cell only
\* positions in [0, N*N), also for the cells of the last row.
C5_ReadsInsideGrid ==
    \A i \in Cells(world_size) :
        \A k \in 1..Len(nearby_positions(world_size, i)) :
            nearby_positions(world_size, i)[k] \in Cells(world_size)

\* C6: on a state with no bit at a position >= N*N, count_nearby_cells of
\* cell i is the number of live cells among the Moore neighbours of
\* (i / N, i % N) that lie inside the grid, with no wraparound.
C6_CountIsMoore ==
    InGrid(world, world_size) =>
        \A i \in Cells(world_size) :
            count_nearby_cells(world, world_size, i)
                = MooreCount(world, world_size, i \div world_size, i % world_size)

\* the grid 110/001/110 reached by a call: 5 around the centre, 1 at the
\* corner N*N-N, 2 at the corner N-1
C6_Witness ==
    /\ world_size = 3
    /\ calls >= 1
    /\ world = {0, 1, 5, 6, 7}
    /\ count_nearby_cells(world, world_size, 4) = 5
    /\ count_nearby_cells(world, world_size, 6) = 1
    /\ count_nearby_cells(world, world_size, 2) = 2

\* C7: for N >= 2 and every state a World can hold, count_nearby_cells is at
\* most 3 at a corner, at most 5 at another border cell, at most 8 inside.
C7_CountLimits ==
    world_size >= 2 =>
        \A i \in Cells(world_size) :
            count_nearby_cells(world, world_size, i)
                <= (IF IsCorner(world_size, i) THEN 3
                    ELSE IF IsBorder(world_size, i) THEN 5 ELSE 8)

\* C8: once stable, advance() changes neither the state, nor the history,
\* nor the flag.
C8_StableAdvanceIsNoOp ==
    [][(stable /\ calls' = calls + 1)
         => (world' = world /\ states' = states /\ stable' = stable)]_vars

\* advance() was called again after the call that found the repeat
C8_Witness ==
    /\ stable
    /\ calls >= Len(states) + 2
    /\ Len(states) >= 2

\* C9: stable is false right after construction, and once is_stable() has
\* returned true it returns true ever after, whatever is called.
C9_StableMonotonic ==
    /\ [](calls = 0 => ~stable)
    /\ [][stable => stable']_vars
    /\ [][observed = <<TRUE>> => (observed' = <<TRUE>> /\ is_stable(Self)')]_vars

\* is_stable() has returned true and advance() was called after the repeat
C9_Witness ==
    /\ observed = <<TRUE>>
    /\ stable
    /\ calls >= Len(states) + 1

\* C10: World::new returns an error exactly when the size is 0 or above 50;
\* for every size in 1..50 and every seed it returns a World with stable false.
C10_NewErrors ==
    result # "none" =>
        /\ result # "Ok" <=> (size = 0 \/ size > 50)
        /\ result # "Ok" => Self = NoWorld
        /\ result = "Ok" => (~stable /\ world_size = size /\ world = seed)

\* the largest accepted size
C10_Witness ==
    /\ result = "Ok"
    /\ size = 50
    /\ ~stable

\* a rejected size leaves no World
C10_WitnessErr ==
    /\ result = ErrTooLarge
    /\ size = 51

\* C11: for a seed that is its own Conway successor on the N x N grid (the
\* all-dead grid included), is_stable() is false before the first advance(),
\* and from the first advance() on is_stable() is true, the current state is
\* the seed and history is exactly <<seed>>.
C11_StillLifeStabilisesAtOnce ==
    ConwayNext(seed, world_size) = seed =>
        /\ calls = 0 => ~is_stable(Self)
        /\ calls >= 1 => (is_stable(Self) /\ world = seed /\ states = <<seed>>)

\* the 2 x 2 block in the corner of the 3 x 3 grid, after one call
C11_Witness ==
    /\ world_size = 3
    /\ seed = {0, 1, 3, 4}
    /\ ConwayNext(seed, world_size) = seed
    /\ calls = 1
    /\ is_stable(Self)
    /\ states = <<seed>>

\* C12: for every state and every index i of the grid, get_cell returns 0 or
\* 1, the value returned is bit i of the state, (state >> i) & 1, and the call
\* leaves every field of the World as it was.
C12_GetCellIsBit ==
    /\ [](cell # <<>> => (cell[2] \in {0, 1} /\ cell[2] = BitOf(Value(world), cell[1])))
    /\ [][cell' # cell => UNCHANGED <<world_size, world, states, stable>>]_vars

\* tests::get_cell_returns_correct_value: 010010001 has bit 7 set and bit 8 clear
C12_Witness ==
    /\ world_size = 3
    /\ world = {0, 4, 7}
    /\ cell = <<7, 1>>

C15_StableOnCycle ==
    is_stable(Self) =>
        \E p \in 1..Len(states) : StepTimes(world, world_size, p) = world

\* tests::advance_works_correctly: the seed and three more states are a
\* transient, the empty grid that follows them is a cycle of length 1
C15_Witness ==
    /\ world_size = 3
    /\ seed = {0, 1, 4, 6, 7}
    /\ is_stable(Self)
    /\ Len(states) = 5
    /\ world = {}
    /\ \A k \in 1..4 : \A p \in 1..Len(states) : StepTimes(states[k], world_size, p) # states[k]

\* C16: in every reachable state history is not empty, its first entry is the
\* seed given to new, every later entry is the next-state computation applied
\* to the entry before it, and the current state is the last entry, also
\* after the call that set stable.
C16_HistoryIsTheRun ==
    [](/\ Len(states) >= 1
       /\ states[1] = seed
       /\ \A k \in 2..Len(states) : states[k] = StepTimes(states[k - 1], world_size, 1)
       /\ world = states[Len(states)])

\* the upright blinker of the 3 x 3 grid after the call that found the seed again
C16_Witness ==
    /\ world_size = 3
    /\ seed = {1, 4, 7}
    /\ is_stable(Self)
    /\ calls = 2
    /\ states = <<{1, 4, 7}, {3, 4, 5}>>
    /\ world = {3, 4, 5}

\* C17: in every reachable state the entries of history are pairwise
\* distinct, so history is as long as the set of its entries is large.
C17_HistoryDistinct ==
    /\ \A j, k \in 1..Len(states) : j # k => states[j] # states[k]
    /\ Len(states) = Cardinality({states[k] : k \in 1..Len(states)})

\* the flat blinker of the 3 x 3 grid: the second call computes the seed again
\* and does not store it, nor does the third call
C17_Witness ==
    /\ world_size = 3
    /\ seed = {3, 4, 5}
    /\ calls = 3
    /\ new_world = <<seed>>
    /\ Len(states) = 2

\* C18: advance() never changes a bit at a position >= N*N: in every
\* reachable state the current state and every entry of history have, at
\* those positions, the bits of the seed.
C18_HighBitsKept ==
    /\ HighBits(world, world_size) = HighBits(seed, world_size)
    /\ \A k \in 1..Len(states) :
          HighBits(states[k], world_size) = HighBits(seed, world_size)

\* size 2, seed 19: the call clears bits 0 and 1, sets bit 2 and keeps bit 4
C18_Witness ==
    /\ world_size = 2
    /\ seed = {0, 1, 4}
    /\ calls = 1
    /\ world = {2, 4}
    /\ states = <<{0, 1, 4}, {2, 4}>>

\* C19: for every size N in 1..50 and every cell i of the grid, every 16-bit
\* unsigned expression of advance() and count_nearby_cells (N*N, N*N-N, i+1,
\* i-1, i-N, i-N-1, i-N+1, i+N, i+N-1, i+N+1, each under the tests that reach
\* it) has its value in 0..65535, none below 0, and the 8-bit neighbour
\* counter ends in 0..8.
C19_NoOverflow ==
    count # <<>> =>
        /\ \A k \in 1..Len(u16_values(world_size, count[1])) :
              u16_values(world_size, count[1])[k] \in U16
        /\ count[2] \in 0..8

\* size 50, the first cell of the last row, every bit set: the tests let
\* i+N+1 = 2501 through, and the counter ends at 5
C19_Witness ==
    /\ world_size = MAX_WORLD_SIZE
    /\ world = 0..2501
    /\ count = <<2450, 5>>

=============================================================================
